---- MODULE Spec2Model ----
(***************************************************************************)
(* local-sync: the block-pooled FIFO queue (src/src/mpsc/block.rs) and the *)
(* single-threaded oneshot channel (src/src/oneshot.rs).                   *)
(*                                                                         *)
(* Both primitives are single-threaded and non-reentrant, so every public  *)
(* operation is one atomic action.  QueueSpec drives one Queue, OneshotSpec*)
(* drives one Sender/Receiver pair over one Inner.                         *)
(***************************************************************************)
EXTENDS Integers, Sequences, FiniteSets, TLC

(***************************************************************************)
(* Part I.  mpsc::block::Queue                                             *)
(***************************************************************************)

\* const BLOCK_CAP: usize = 32;
BLOCK_CAP == 32

\* The null block pointer (null_mut()).  Block addresses are 1, 2, 3, ...
NULL == 0

\* Total number of push_unchecked calls explored.
MaxPush == 70

\* The `cap` arguments explored by Queue::new: None (0 = unbounded), the
\* bound-3 queue of the spec's scenario, and a bound larger than one Block.
QueueCaps == {0, 3, 40}

\* A slot of MaybeUninit::uninit() that was never written.
Uninit == -1

\* What a read of a never-written slot may produce (undefined behaviour).
GarbageVals == {0, 1}

VARIABLES
    blocks,     \* the heap: blocks[a] is the Block<T> at address a
    head,       \* Queue.head
    tail,       \* Queue.tail
    len,        \* Queue.len
    cap,        \* Queue.cap
    qpanic,     \* "none", or the panic that aborted an operation
    pushes,     \* history: number of completed push_unchecked calls
    pops,       \* history: number of completed pop_unchecked calls
    qlast,      \* history: the last operation, "new" | "push" | "pop" | "free"
    popRet,     \* history: the value returned by the last pop_unchecked
    hwm,        \* history: the largest len reached so far
    drained,    \* history: len went back to 0 after hwm was last raised
    freed,      \* history: the Blocks free_blocks deallocated, in order
    valDropped  \* history: the values dropped by free_blocks, in order

qvars == <<blocks, head, tail, len, cap, qpanic, pushes, pops, qlast, popRet,
           hwm, drained, freed, valDropped>>

\* The oneshot channel: Inner, the two handles, and history variables.
VARIABLES
    state,      \* Inner.state: the bit field
    value,      \* Inner.value: Option<T>
    tx_task,    \* Inner.tx_task: the waker stored in the slot, if any
    rx_task,    \* Inner.rx_task
    inner_freed,\* Drop for Inner has run (both references released)
    tx,         \* the Sender: "live" | "sent" (consumed by send) | "dropped"
    rx,         \* the Receiver: "live" | "dropped"
    rx_inner,   \* Receiver.inner.is_some()
    olast,      \* history: the last call, its result and the state before it
    sent,       \* history: the outcome of send, [res, v]
    close_called, \* history: Receiver::close has been called
    nrecv,      \* history: receive attempts since the Sender sent or dropped
    nyield,     \* history: how many receive attempts yielded a value
    rx_pend,    \* history: waker of the latest Pending poll, None once closed
    tx_pend,    \* history: waker of the latest Pending poll_closed
    tx_woke,    \* history: tx_task waker invoked since that poll_closed
    rx_woke,    \* history: rx_task wakers invoked by Inner::complete
    rx_stale,   \* history: wakers that were stored in rx_task and replaced
    tx_stale,   \* history: wakers that were stored in tx_task and replaced
    tx_dropped, \* history: the tx_task wakers the last call dropped
    rx_dropped, \* history: the rx_task wakers the last call dropped
    tx_inner,   \* Sender.inner.is_some()
    ncomplete,  \* history: how many times Inner::complete has run
    rx_terminal \* history: a receive attempt returned a value or an error

ovars == <<state, value, tx_task, rx_task, inner_freed, tx, rx, rx_inner,
           olast, sent, close_called, nrecv, nyield, rx_pend, tx_pend, tx_woke,
           rx_woke, rx_stale, tx_stale, tx_dropped, rx_dropped, tx_inner,
           ncomplete, rx_terminal>>

vars == <<qvars, ovars>>

\* The k-th value handed to push_unchecked (the tests push idx = 0, 1, 2, ...;
\* here the k-th push pushes k, so every pushed value is distinct).
PushedValue(k) == k

\* Block::new
BlockNew ==
    [next |-> NULL, values |-> [i \in 0 .. BLOCK_CAP - 1 |-> Uninit],
     begin |-> 0, end |-> 0]

\* Block::len
BlockLen(blk) == blk.end - blk.begin

\* Block::is_empty
BlockIsEmpty(blk) == blk.end = blk.begin

\* Block::next
BlockNext(blk) == blk.next

\* Faulty variant: the cursors are left where they were.
BlockReset_KeepCursors(blk) == [blk EXCEPT !.next = NULL]

\* Block::reset
BlockReset(blk) == [blk EXCEPT !.next = NULL, !.begin = 0, !.end = 0]

\* The Queue object as one record over the heap.
Q == [blocks |-> blocks, head |-> head, tail |-> tail, len |-> len,
      cap |-> cap, panic |-> qpanic]

\* Queue::new
QueueNew(c) ==
    [blocks |-> <<BlockNew>>, head |-> 1, tail |-> 1, len |-> 0, cap |-> c,
     panic |-> "none"]

\* Queue::len
QueueLen(q) == q.len

\* Queue::is_empty
QueueIsEmpty(q) == q.len = 0

\* Queue::is_full
QueueIsFull(q) == q.cap = 0 \/ q.len < q.cap

\* push_unchecked, first half: write the value at the tail Block's `end`
\* and bump `end` (values[offset] is bounds-checked after the bump).
PushWrite(q, item) ==
    LET offset == q.blocks[q.tail].end
        b1 == [q.blocks EXCEPT ![q.tail].end = @ + 1]
    IN  IF offset >= BLOCK_CAP
          THEN [q EXCEPT !.blocks = b1, !.panic = "index out of bounds"]
          ELSE [q EXCEPT !.blocks = [b1 EXCEPT ![q.tail].values[offset] = item]]

\* Faulty variant: the new Block is allocated one slot before the tail
\* Block is full.
PushAdvance_AllocateEarly(q) ==
    LET blk == q.blocks[q.tail]
        q1 == [q EXCEPT !.len = @ + 1]
    IN  IF blk.end >= BLOCK_CAP - 1
          THEN IF BlockNext(blk) # NULL
                 THEN [q1 EXCEPT !.tail = BlockNext(blk)]
                 ELSE LET ptr == Len(q.blocks) + 1
                      IN  [q1 EXCEPT
                             !.blocks = Append([q.blocks EXCEPT ![q.tail].next = ptr],
                                               BlockNew),
                             !.tail = ptr]
          ELSE q1

\* Faulty variant: a Block linked after the tail is ignored and a new Block
\* is always allocated.
PushAdvance_AlwaysAllocate(q) ==
    LET blk == q.blocks[q.tail]
        q1 == [q EXCEPT !.len = @ + 1]
    IN  IF blk.end = BLOCK_CAP
          THEN LET ptr == Len(q.blocks) + 1
               IN  [q1 EXCEPT
                      !.blocks = Append([q.blocks EXCEPT ![q.tail].next = ptr],
                                        BlockNew),
                      !.tail = ptr]
          ELSE q1

\* Faulty variant: tail is not moved to a Block that is already linked.
PushAdvance_NoMoveToLinked(q) ==
    LET blk == q.blocks[q.tail]
        q1 == [q EXCEPT !.len = @ + 1]
    IN  IF blk.end = BLOCK_CAP
          THEN IF BlockNext(blk) # NULL
                 THEN q1
                 ELSE LET ptr == Len(q.blocks) + 1
                      IN  [q1 EXCEPT
                             !.blocks = Append([q.blocks EXCEPT ![q.tail].next = ptr],
                                               BlockNew),
                             !.tail = ptr]
          ELSE q1

\* Faulty variant: the new Block is not linked after the old tail.
PushAdvance_NoLink(q) ==
    LET blk == q.blocks[q.tail]
        q1 == [q EXCEPT !.len = @ + 1]
    IN  IF blk.end = BLOCK_CAP
          THEN IF BlockNext(blk) # NULL
                 THEN [q1 EXCEPT !.tail = BlockNext(blk)]
                 ELSE LET ptr == Len(q.blocks) + 1
                      IN  [q1 EXCEPT !.blocks = Append(q.blocks, BlockNew),
                                     !.tail = ptr]
          ELSE q1

\* Faulty variant: `self.len += 1` is left out.
PushAdvance_NoLenUpdate(q) ==
    LET blk == q.blocks[q.tail]
    IN  IF blk.end = BLOCK_CAP
          THEN IF BlockNext(blk) # NULL
                 THEN [q EXCEPT !.tail = BlockNext(blk)]
                 ELSE LET ptr == Len(q.blocks) + 1
                      IN  [q EXCEPT
                             !.blocks = Append([q.blocks EXCEPT ![q.tail].next = ptr],
                                               BlockNew),
                             !.tail = ptr]
          ELSE q

\* push_unchecked, second half: bump len and, when the tail Block became
\* full, move tail to the Block linked after it or to a fresh Block.
PushAdvance(q) ==
    LET blk == q.blocks[q.tail]
        q1 == [q EXCEPT !.len = @ + 1]
    IN  IF blk.end = BLOCK_CAP
          THEN IF BlockNext(blk) # NULL
                 THEN [q1 EXCEPT !.tail = BlockNext(blk)]
                 ELSE LET ptr == Len(q.blocks) + 1
                      IN  [q1 EXCEPT
                             !.blocks = Append([q.blocks EXCEPT ![q.tail].next = ptr],
                                               BlockNew),
                             !.tail = ptr]
          ELSE q1

\* Queue::push_unchecked
push_unchecked(q, item) ==
    LET q1 == PushWrite(q, item)
    IN  IF q1.panic # "none" THEN q1 ELSE PushAdvance(q1)

\* pop_unchecked, first half: the values ptr.read() may return for the slot
\* at the head Block's `begin`.  A never-written slot is an uninitialised
\* read; an index past the array panics (no value).
PopRead(q) ==
    LET blk == q.blocks[q.head]
    IN  IF blk.begin >= BLOCK_CAP THEN {}
        ELSE IF blk.values[blk.begin] = Uninit THEN GarbageVals
        ELSE {blk.values[blk.begin]}

\* Faulty variant: the Blocks that were linked after the tail are not linked
\* after the recycled Block.
PopRecycle_DropFreeList(q) ==
    LET blk == q.blocks[q.head]
    IN  IF blk.begin = BLOCK_CAP
          THEN IF BlockNext(blk) = NULL
                 THEN [q EXCEPT !.panic = "internal error"]
                 ELSE LET b1 == [q.blocks EXCEPT ![q.head] = BlockReset(blk)]
                          b3 == [b1 EXCEPT ![q.tail].next = q.head]
                      IN  [q EXCEPT !.head = BlockNext(blk), !.blocks = b3]
          ELSE q

\* Faulty variant: head is moved to the tail Block instead of the drained
\* Block's successor.
PopRecycle_HeadToTail(q) ==
    LET blk == q.blocks[q.head]
    IN  IF blk.begin = BLOCK_CAP
          THEN IF BlockNext(blk) = NULL
                 THEN [q EXCEPT !.panic = "internal error"]
                 ELSE LET free_blocks == q.blocks[q.tail].next
                          b1 == [q.blocks EXCEPT ![q.head] = BlockReset(blk)]
                          b2 == [b1 EXCEPT ![q.head].next = free_blocks]
                          b3 == [b2 EXCEPT ![q.tail].next = q.head]
                      IN  [q EXCEPT !.head = q.tail, !.blocks = b3]
          ELSE q

\* pop_unchecked, second half (after begin += 1 and len -= 1): when the head
\* Block is drained, advance head and relink the reset Block after the tail.
\* The writes happen in source order, so aliasing of blk and tail shows.
PopRecycle(q) ==
    LET blk == q.blocks[q.head]
    IN  IF blk.begin = BLOCK_CAP
          THEN IF BlockNext(blk) = NULL
                 THEN [q EXCEPT !.panic = "internal error"]
                 ELSE LET free_blocks == q.blocks[q.tail].next
                          b1 == [q.blocks EXCEPT ![q.head] = BlockReset(blk)]
                          b2 == [b1 EXCEPT ![q.head].next = free_blocks]
                          b3 == [b2 EXCEPT ![q.tail].next = q.head]
                      IN  [q EXCEPT !.head = BlockNext(blk), !.blocks = b3]
          ELSE q

\* Queue::pop_unchecked (the queue after the call; PopRead gives the value)
pop_unchecked(q) ==
    LET blk == q.blocks[q.head]
    IN  IF blk.begin >= BLOCK_CAP
          THEN [q EXCEPT !.blocks[q.head].begin = @ + 1,
                         !.panic = "index out of bounds"]
          ELSE PopRecycle([q EXCEPT !.blocks[q.head].begin = @ + 1,
                                    !.len = @ - 1])

\* drop(Box::from_raw(block)): the values dropped with the Block.  Block has
\* no Drop impl and its slots are MaybeUninit<T>, which never drops what it
\* holds, so the memory is released and no value is dropped.
BlockDrop(blk) == <<>>

\* Queue::free_blocks, the walk: the Blocks visited from `cur` by following
\* next, each deallocated when visited.  The walk ends at a null link; the
\* bound only ends the unfolding if the links form a cycle, after one Block
\* has been visited (deallocated) twice.
RECURSIVE FreeWalk(_, _, _)
FreeWalk(b, cur, fuel) ==
    IF cur = NULL \/ fuel = 0 THEN <<>>
    ELSE <<cur>> \o FreeWalk(b, BlockNext(b[cur]), fuel - 1)

\* The values dropped while deallocating the Blocks of `walk`, in order.
RECURSIVE DropWalk(_, _)
DropWalk(b, walk) ==
    IF walk = <<>> THEN <<>>
    ELSE BlockDrop(b[Head(walk)]) \o DropWalk(b, Tail(walk))

\* Queue::free_blocks
free_blocks(q) ==
    LET walk == FreeWalk(q.blocks, q.head, Len(q.blocks) + 1)
    IN  [freed |-> walk, dropped |-> DropWalk(q.blocks, walk)]

Max(a, b) == IF a > b THEN a ELSE b

QSet(q) ==
    /\ blocks' = q.blocks
    /\ head' = q.head
    /\ tail' = q.tail
    /\ len' = q.len
    /\ cap' = q.cap
    /\ qpanic' = q.panic

QInit ==
    /\ \E c \in QueueCaps :
         LET q == QueueNew(c)
         IN  /\ blocks = q.blocks
             /\ head = q.head
             /\ tail = q.tail
             /\ len = q.len
             /\ cap = q.cap
             /\ qpanic = q.panic
    /\ pushes = 0
    /\ pops = 0
    /\ qlast = "new"
    /\ popRet = Uninit
    /\ hwm = 0
    /\ drained = FALSE
    /\ freed = <<>>
    /\ valDropped = <<>>

\* A caller pushes: "Safety: Make sure the current capacity is allowed."
Push ==
    /\ qpanic = "none"
    /\ qlast # "free"
    /\ pushes < MaxPush
    /\ cap = 0 \/ len < cap
    /\ LET q1 == push_unchecked(Q, PushedValue(pushes + 1))
       IN  /\ QSet(q1)
           /\ hwm' = Max(hwm, q1.len)
           /\ drained' = IF q1.len > hwm THEN FALSE ELSE drained
    /\ pushes' = pushes + 1
    /\ qlast' = "push"
    /\ UNCHANGED <<pops, popRet, freed, valDropped>>
    /\ UNCHANGED ovars

\* A caller pops: "Safety: Make sure there is still some data inside."
Pop ==
    /\ qpanic = "none"
    /\ qlast # "free"
    /\ len > 0
    /\ LET q1 == pop_unchecked(Q)
       IN  /\ QSet(q1)
           /\ drained' = IF q1.len = 0 THEN TRUE ELSE drained
           /\ IF q1.panic # "none"
                THEN UNCHANGED <<pops, popRet>>
                ELSE /\ \E v \in PopRead(Q) : popRet' = v
                     /\ pops' = pops + 1
    /\ qlast' = "pop"
    /\ UNCHANGED <<pushes, hwm, freed, valDropped>>
    /\ UNCHANGED ovars

\* The owner tears the Queue down: free_blocks, called once.  The release
\* build leaves `head` as it was and the debug build overwrites it with the
\* dangling sentinel for its assertion; qlast = "free" marks the torn-down
\* Queue, on which nothing more is called.
FreeBlocks ==
    /\ qpanic = "none"
    /\ qlast # "free"
    /\ LET r == free_blocks(Q)
       IN  /\ freed' = r.freed
           /\ valDropped' = r.dropped
    /\ qlast' = "free"
    /\ UNCHANGED <<blocks, head, tail, len, cap, qpanic, pushes, pops, popRet,
                   hwm, drained>>
    /\ UNCHANGED ovars

QNext == Push \/ Pop \/ FreeBlocks

(***************************************************************************)
(* Part II.  oneshot                                                       *)
(***************************************************************************)

\* const RX_TASK_SET: usize = 0b00001;
RX_TASK_SET == 1
\* const VALUE_SENT: usize = 0b00010;
VALUE_SENT == 2
\* const CLOSED: usize = 0b00100;
CLOSED == 4
\* const TX_TASK_SET: usize = 0b01000;
TX_TASK_SET == 8

\* The values a Sender may send.
Vals == {"a", "b"}

\* The wakers a Context may carry; will_wake holds between equal wakers only.
Wakers == {"w1", "w2"}

\* The history counters nrecv and nyield stop counting here.
CountCap == 2

\* Option<T> / a Task slot: <<>> is None / no initialised waker, <<x>> is Some(x).
None == <<>>
Some(x) == <<x>>

HasBit(s, bit) == (s \div bit) % 2 = 1
WithBit(s, bit) == IF HasBit(s, bit) THEN s ELSE s + bit
WithoutBit(s, bit) == IF HasBit(s, bit) THEN s - bit ELSE s

\* State::new
StateNew == 0

\* State::is_complete
is_complete(s) == HasBit(s, VALUE_SENT)

\* Faulty variant: the `|= VALUE_SENT` is left out.
set_complete_Forgotten(s) == s

\* State::set_complete: the cell after `|=`, which is also what is returned
set_complete(s) == WithBit(s, VALUE_SENT)

\* State::is_rx_task_set
is_rx_task_set(s) == HasBit(s, RX_TASK_SET)

\* State::set_rx_task
set_rx_task(s) == WithBit(s, RX_TASK_SET)

\* State::unset_rx_task
unset_rx_task(s) == WithoutBit(s, RX_TASK_SET)

\* Faulty variant: tests VALUE_SENT instead of CLOSED.
is_closed_WrongBit(s) == HasBit(s, VALUE_SENT)

\* State::is_closed
is_closed(s) == HasBit(s, CLOSED)

\* State::set_closed
set_closed(s) == WithBit(s, CLOSED)

\* State::set_tx_task
set_tx_task(s) == WithBit(s, TX_TASK_SET)

\* State::unset_tx_task
unset_tx_task(s) == WithoutBit(s, TX_TASK_SET)

\* State::is_tx_task_set
is_tx_task_set(s) == HasBit(s, TX_TASK_SET)

\* Task::will_wake
will_wake(slot, w) == slot = Some(w)

\* Task::with_task(Waker::wake_by_ref): the wakers invoked
wake_by_ref(slot) == slot

\* The Inner object as one record.
I == [state |-> state, value |-> value, tx_task |-> tx_task, rx_task |-> rx_task]

\* channel(): the Inner it allocates
InnerNew == [state |-> StateNew, value |-> None, tx_task |-> None, rx_task |-> None]

\* Inner::consume_value
consume_value(i) == [i |-> [i EXCEPT !.value = None], val |-> i.value]

\* Faulty variant: the `prev.is_closed()` early return is left out.
complete_IgnoreClosed(i) ==
    LET prev == set_complete(i.state)
        i1 == [i EXCEPT !.state = prev]
    IN  IF is_rx_task_set(prev)
          THEN [i |-> i1, ret |-> TRUE, woke |-> wake_by_ref(i.rx_task)]
          ELSE [i |-> i1, ret |-> TRUE, woke |-> None]

\* Faulty variant: the rx_task waker is invoked before CLOSED is tested.
complete_WakeBeforeClosedTest(i) ==
    LET prev == set_complete(i.state)
        i1 == [i EXCEPT !.state = prev]
        woke == IF is_rx_task_set(prev) THEN wake_by_ref(i.rx_task) ELSE None
    IN  [i |-> i1, ret |-> ~is_closed(prev), woke |-> woke]

\* Inner::complete
complete(i) ==
    LET prev == set_complete(i.state)
        i1 == [i EXCEPT !.state = prev]
    IN  IF is_closed(prev)
          THEN [i |-> i1, ret |-> FALSE, woke |-> None]
          ELSE IF is_rx_task_set(prev)
                 THEN [i |-> i1, ret |-> TRUE, woke |-> wake_by_ref(i.rx_task)]
                 ELSE [i |-> i1, ret |-> TRUE, woke |-> None]

\* Faulty variant: closing discards a value that was already stored.
close_DiscardsValue(i) ==
    LET prev == set_closed(i.state)
        i1 == [i EXCEPT !.state = prev, !.value = None]
    IN  IF is_tx_task_set(prev) /\ ~is_complete(prev)
          THEN [i |-> i1, woke |-> wake_by_ref(i.tx_task)]
          ELSE [i |-> i1, woke |-> None]

\* Faulty variant: the `!prev.is_complete()` test is inverted.
close_WakeIfComplete(i) ==
    LET prev == set_closed(i.state)
        i1 == [i EXCEPT !.state = prev]
    IN  IF is_tx_task_set(prev) /\ is_complete(prev)
          THEN [i |-> i1, woke |-> wake_by_ref(i.tx_task)]
          ELSE [i |-> i1, woke |-> None]

\* Inner::close
close(i) ==
    LET prev == set_closed(i.state)
        i1 == [i EXCEPT !.state = prev]
    IN  IF is_tx_task_set(prev) /\ ~is_complete(prev)
          THEN [i |-> i1, woke |-> wake_by_ref(i.tx_task)]
          ELSE [i |-> i1, woke |-> None]

\* poll_recv's three `match unsafe { self.consume_value() }` arms
RecvValue(i) ==
    LET c == consume_value(i)
    IN  IF c.val # None
          THEN [i |-> c.i, ret |-> "ReadyOk", val |-> c.val, dropped |-> None]
          ELSE [i |-> c.i, ret |-> "ReadyErr", val |-> None, dropped |-> None]

\* Faulty variant: CLOSED is tested before VALUE_SENT.
poll_recv_ClosedFirst(i, w) ==
    IF is_closed(i.state)
      THEN [i |-> i, ret |-> "ReadyErr", val |-> None, dropped |-> None]
    ELSE IF is_complete(i.state) THEN RecvValue(i)
    ELSE
      LET stale == is_rx_task_set(i.state) /\ ~will_wake(i.rx_task, w)
          s1 == IF stale THEN unset_rx_task(i.state) ELSE i.state
          i1 == IF stale THEN [i EXCEPT !.state = s1, !.rx_task = None] ELSE i
          d == IF stale THEN i.rx_task ELSE None
      IN  IF ~is_rx_task_set(s1)
            THEN [i |-> [i1 EXCEPT !.rx_task = Some(w), !.state = set_rx_task(s1)],
                  ret |-> "Pending", val |-> None, dropped |-> d]
            ELSE [i |-> i1, ret |-> "Pending", val |-> None, dropped |-> d]

\* Faulty variant: a stored waker is kept even when it would not wake the
\* polling task.
poll_recv_KeepStale(i, w) ==
    IF is_complete(i.state) THEN RecvValue(i)
    ELSE IF is_closed(i.state)
           THEN [i |-> i, ret |-> "ReadyErr", val |-> None, dropped |-> None]
    ELSE IF is_rx_task_set(i.state)
           THEN [i |-> i, ret |-> "Pending", val |-> None, dropped |-> None]
           ELSE LET i1 == [i EXCEPT !.rx_task = Some(w),
                                    !.state = set_rx_task(i.state)]
                IN  [i |-> i1, ret |-> "Pending", val |-> None, dropped |-> None]

\* Inner::poll_recv; `dropped` is what drop_task released
poll_recv(i, w) ==
    IF is_complete(i.state) THEN RecvValue(i)
    ELSE IF is_closed(i.state)
           THEN [i |-> i, ret |-> "ReadyErr", val |-> None, dropped |-> None]
    ELSE
      LET stale == is_rx_task_set(i.state) /\ ~will_wake(i.rx_task, w)
          \* state = State::unset_rx_task(&self.state)
          s1 == IF stale THEN unset_rx_task(i.state) ELSE i.state
      IN  IF stale /\ is_complete(s1)
            THEN \* set the flag again so that the waker is released in drop
                 RecvValue([i EXCEPT !.state = set_rx_task(s1)])
            ELSE
              LET \* unsafe { self.rx_task.drop_task() }
                  i1 == IF stale THEN [i EXCEPT !.state = s1, !.rx_task = None]
                                 ELSE i
                  d == IF stale THEN i.rx_task ELSE None
              IN  IF ~is_rx_task_set(s1)
                    THEN LET s2 == set_rx_task(s1)
                             i2 == [i1 EXCEPT !.rx_task = Some(w), !.state = s2]
                         IN  IF is_complete(s2) THEN RecvValue(i2)
                             ELSE [i |-> i2, ret |-> "Pending", val |-> None,
                                   dropped |-> d]
                    ELSE [i |-> i1, ret |-> "Pending", val |-> None,
                          dropped |-> d]

\* Faulty variant: a stored waker is kept even when it would not wake the
\* polling task.
poll_closed_KeepStale(i, w) ==
    IF is_closed(i.state) THEN [i |-> i, ret |-> "Ready", dropped |-> None]
    ELSE IF is_tx_task_set(i.state)
           THEN [i |-> i, ret |-> "Pending", dropped |-> None]
           ELSE LET i1 == [i EXCEPT !.tx_task = Some(w),
                                    !.state = set_tx_task(i.state)]
                IN  [i |-> i1, ret |-> "Pending", dropped |-> None]

\* Sender::poll_closed; `dropped` is what drop_task released
poll_closed(i, w) ==
    IF is_closed(i.state) THEN [i |-> i, ret |-> "Ready", dropped |-> None]
    ELSE
      LET stale == is_tx_task_set(i.state) /\ ~will_wake(i.tx_task, w)
          s1 == IF stale THEN unset_tx_task(i.state) ELSE i.state
      IN  IF stale /\ is_closed(s1)
            THEN [i |-> [i EXCEPT !.state = set_tx_task(s1)], ret |-> "Ready",
                  dropped |-> None]
            ELSE
              LET i1 == IF stale THEN [i EXCEPT !.state = s1, !.tx_task = None]
                                 ELSE i
                  d == IF stale THEN i.tx_task ELSE None
              IN  IF ~is_tx_task_set(s1)
                    THEN LET s2 == set_tx_task(s1)
                             i2 == [i1 EXCEPT !.tx_task = Some(w), !.state = s2]
                         IN  IF is_closed(s2)
                               THEN [i |-> i2, ret |-> "Ready", dropped |-> d]
                               ELSE [i |-> i2, ret |-> "Pending", dropped |-> d]
                    ELSE [i |-> i1, ret |-> "Pending", dropped |-> d]

\* Sender::is_closed
SenderIsClosed(i) == is_closed(i.state)

\* Faulty variant: send leaves the Sender's reference in place
\* (self.inner.as_ref() instead of self.inner.take()).
send_KeepsInner(i, t) ==
    LET c == complete([i EXCEPT !.value = Some(t)])
    IN  IF ~c.ret
          THEN LET v == consume_value(c.i)
               IN  [i |-> v.i, ret |-> "Err", val |-> v.val, woke |-> c.woke,
                    held |-> TRUE, completes |-> 1]
          ELSE [i |-> c.i, ret |-> "Ok", val |-> None, woke |-> c.woke,
                held |-> TRUE, completes |-> 1]

\* Sender::send; `held` is self.inner.is_some() once send is done with it
\* (self.inner.take()), `completes` the calls of Inner::complete
send(i, t) ==
    LET c == complete([i EXCEPT !.value = Some(t)])
    IN  IF ~c.ret
          THEN LET v == consume_value(c.i)
               IN  [i |-> v.i, ret |-> "Err", val |-> v.val, woke |-> c.woke,
                    held |-> FALSE, completes |-> 1]
          ELSE [i |-> c.i, ret |-> "Ok", val |-> None, woke |-> c.woke,
                held |-> FALSE, completes |-> 1]

\* Faulty variant: the Empty outcome releases the Receiver's reference.
try_recv_EmptyReleases(i, held) ==
    IF ~held THEN [i |-> i, ret |-> "Closed", val |-> None, held |-> FALSE]
    ELSE IF is_complete(i.state)
      THEN LET c == consume_value(i)
           IN  IF c.val # None
                 THEN [i |-> c.i, ret |-> "Ok", val |-> c.val, held |-> FALSE]
                 ELSE [i |-> c.i, ret |-> "Closed", val |-> None, held |-> FALSE]
    ELSE IF is_closed(i.state)
      THEN [i |-> i, ret |-> "Closed", val |-> None, held |-> FALSE]
    ELSE [i |-> i, ret |-> "Empty", val |-> None, held |-> FALSE]

\* Faulty variant: CLOSED is tested before VALUE_SENT.
try_recv_ClosedFirst(i, held) ==
    IF ~held THEN [i |-> i, ret |-> "Closed", val |-> None, held |-> FALSE]
    ELSE IF is_closed(i.state)
      THEN [i |-> i, ret |-> "Closed", val |-> None, held |-> FALSE]
    ELSE IF is_complete(i.state)
      THEN LET c == consume_value(i)
           IN  IF c.val # None
                 THEN [i |-> c.i, ret |-> "Ok", val |-> c.val, held |-> FALSE]
                 ELSE [i |-> c.i, ret |-> "Closed", val |-> None, held |-> FALSE]
    ELSE [i |-> i, ret |-> "Empty", val |-> None, held |-> TRUE]

\* Receiver::try_recv; `held` is self.inner.is_some()
try_recv(i, held) ==
    IF ~held THEN [i |-> i, ret |-> "Closed", val |-> None, held |-> FALSE]
    ELSE IF is_complete(i.state)
      THEN LET c == consume_value(i)
           IN  IF c.val # None
                 THEN [i |-> c.i, ret |-> "Ok", val |-> c.val, held |-> FALSE]
                 ELSE [i |-> c.i, ret |-> "Closed", val |-> None, held |-> FALSE]
    ELSE IF is_closed(i.state)
      THEN [i |-> i, ret |-> "Closed", val |-> None, held |-> FALSE]
    ELSE [i |-> i, ret |-> "Empty", val |-> None, held |-> TRUE]

\* Faulty variant: a poll without the reference reports the closed error
\* instead of panicking.
poll_NoPanic(i, held, w) ==
    IF ~held THEN [i |-> i, ret |-> "ReadyErr", val |-> None, held |-> FALSE,
                   dropped |-> None]
    ELSE LET r == poll_recv(i, w)
         IN  [i |-> r.i, ret |-> r.ret, val |-> r.val,
              held |-> r.ret # "ReadyOk", dropped |-> r.dropped]

\* impl Future for Receiver: poll.  `?` returns Ready(Err) before
\* `self.inner = None`, so only Ready(Ok) releases the reference.
poll(i, held, w) ==
    IF ~held THEN [i |-> i, ret |-> "panic", val |-> None, held |-> FALSE,
                   dropped |-> None]
    ELSE LET r == poll_recv(i, w)
         IN  [i |-> r.i, ret |-> r.ret, val |-> r.val,
              held |-> r.ret # "ReadyOk", dropped |-> r.dropped]

\* Faulty variant: the drop does not complete the channel.
sender_drop_NoComplete(i, held) == [i |-> i, woke |-> None, completes |-> 0]

\* impl Drop for Sender; `held` is self.inner.is_some()
sender_drop(i, held) ==
    IF held THEN LET c == complete(i)
                 IN  [i |-> c.i, woke |-> c.woke, completes |-> 1]
            ELSE [i |-> i, woke |-> None, completes |-> 0]

\* Receiver::close
receiver_close(i, held) == IF held THEN close(i) ELSE [i |-> i, woke |-> None]

\* impl Drop for Receiver
receiver_drop(i, held) == IF held THEN close(i) ELSE [i |-> i, woke |-> None]

\* Faulty variant: the tx_task slot is forgotten.
inner_drop_RxOnly(i) ==
    [i EXCEPT !.rx_task = IF is_rx_task_set(i.state) THEN None ELSE @]

\* impl Drop for Inner
inner_drop(i) ==
    [i EXCEPT !.rx_task = IF is_rx_task_set(i.state) THEN None ELSE @,
              !.tx_task = IF is_tx_task_set(i.state) THEN None ELSE @]

Min(a, b) == IF a < b THEN a ELSE b

\* The state a call starts from, kept with its result in olast.
Pre == [state |-> state, value |-> value, tx_task |-> tx_task,
        rx_task |-> rx_task, rx_inner |-> rx_inner, rx_pend |-> rx_pend,
        tx_pend |-> tx_pend, inner_freed |-> inner_freed]

Call(op, ret, val, arg, woke) ==
    [op |-> op, ret |-> ret, val |-> val, arg |-> arg, woke |-> woke, pre |-> Pre]

\* The handles after a call, and Inner after it: Rc drops Inner when the
\* last of the two references is released.
OSet(i, txn, rxn, heldn, txd, rxd) ==
    LET refs == txn = "live" \/ (rxn = "live" /\ heldn)
        last == ~refs /\ ~inner_freed
        i1 == IF last THEN inner_drop(i) ELSE i
    IN  /\ tx_dropped' = IF i1.tx_task # i.tx_task THEN txd \o i.tx_task ELSE txd
        /\ rx_dropped' = IF i1.rx_task # i.rx_task THEN rxd \o i.rx_task ELSE rxd
        /\ state' = i1.state
        /\ value' = i1.value
        /\ tx_task' = i1.tx_task
        /\ rx_task' = i1.rx_task
        /\ inner_freed' = ~refs
        /\ tx' = txn
        /\ rx' = rxn
        /\ rx_inner' = heldn

\* channel()
OInit ==
    /\ state = InnerNew.state
    /\ value = InnerNew.value
    /\ tx_task = InnerNew.tx_task
    /\ rx_task = InnerNew.rx_task
    /\ inner_freed = FALSE
    /\ tx = "live"
    /\ rx = "live"
    /\ rx_inner = TRUE
    /\ olast = [op |-> "channel", ret |-> "unit", val |-> None, arg |-> None,
                woke |-> None,
                pre |-> [state |-> StateNew, value |-> None, tx_task |-> None,
                         rx_task |-> None, rx_inner |-> TRUE, rx_pend |-> None,
                         tx_pend |-> None, inner_freed |-> FALSE]]
    /\ sent = [res |-> "no", v |-> None]
    /\ close_called = FALSE
    /\ nrecv = 0
    /\ nyield = 0
    /\ rx_pend = None
    /\ tx_pend = None
    /\ tx_woke = None
    /\ rx_woke = None
    /\ rx_stale = {}
    /\ tx_stale = {}
    /\ tx_dropped = None
    /\ rx_dropped = None
    /\ tx_inner = TRUE
    /\ ncomplete = 0
    /\ rx_terminal = FALSE

\* tx.send(t)
Send ==
    /\ tx = "live"
    /\ \E t \in Vals :
         LET r == send(I, t)
             \* `self` is consumed: the Sender is dropped as send returns
             d == sender_drop(r.i, r.held)
         IN  /\ OSet(d.i, "sent", rx, rx_inner, None, None)
             /\ olast' = Call("send", r.ret, r.val, Some(t), r.woke \o d.woke)
             /\ sent' = [res |-> IF r.ret = "Ok" THEN "ok" ELSE "err", v |-> Some(t)]
             /\ rx_woke' = rx_woke \o r.woke \o d.woke
             /\ tx_inner' = r.held
             /\ ncomplete' = ncomplete + r.completes + d.completes
    /\ UNCHANGED <<close_called, nrecv, nyield, rx_pend, tx_pend, tx_woke, rx_stale, tx_stale>>
    /\ UNCHANGED rx_terminal
    /\ UNCHANGED qvars

\* drop(tx) without sending
SenderDrop ==
    /\ tx = "live"
    /\ LET r == sender_drop(I, tx_inner)
       IN  /\ OSet(r.i, "dropped", rx, rx_inner, None, None)
           /\ olast' = Call("drop_tx", "unit", None, None, r.woke)
           /\ rx_woke' = rx_woke \o r.woke
           /\ ncomplete' = ncomplete + r.completes
    /\ UNCHANGED tx_inner
    /\ UNCHANGED <<sent, close_called, nrecv, nyield, rx_pend, tx_pend, tx_woke, rx_stale, tx_stale>>
    /\ UNCHANGED rx_terminal
    /\ UNCHANGED qvars

\* tx.poll_closed(cx)
PollClosed ==
    /\ tx = "live"
    /\ \E w \in Wakers :
         LET r == poll_closed(I, w)
         IN  /\ OSet(r.i, tx, rx, rx_inner, r.dropped, None)
             /\ olast' = Call("poll_closed", r.ret, None, Some(w), None)
             /\ tx_pend' = IF r.ret = "Pending" THEN Some(w) ELSE tx_pend
             /\ tx_woke' = IF r.ret = "Pending" THEN None ELSE tx_woke
             /\ tx_stale' = IF tx_task # None /\ r.i.tx_task # tx_task
                               THEN tx_stale \cup {tx_task[1]} ELSE tx_stale
    /\ UNCHANGED <<sent, close_called, nrecv, nyield, rx_pend, rx_woke, rx_stale>>
    /\ UNCHANGED <<tx_inner, ncomplete>>
    /\ UNCHANGED rx_terminal
    /\ UNCHANGED qvars

\* rx.close()
Close ==
    /\ rx = "live"
    /\ LET r == receiver_close(I, rx_inner)
       IN  /\ OSet(r.i, tx, rx, rx_inner, None, None)
           /\ olast' = Call("close", "unit", None, None, r.woke)
           /\ tx_woke' = IF r.woke # None THEN r.woke ELSE tx_woke
    /\ close_called' = TRUE
    /\ rx_pend' = None
    /\ UNCHANGED <<sent, nrecv, nyield, tx_pend, rx_woke, rx_stale, tx_stale>>
    /\ UNCHANGED <<tx_inner, ncomplete>>
    /\ UNCHANGED rx_terminal
    /\ UNCHANGED qvars

\* rx.try_recv()
TryRecv ==
    /\ rx = "live"
    /\ LET r == try_recv(I, rx_inner)
       IN  /\ OSet(r.i, tx, rx, r.held, None, None)
           /\ olast' = Call("try_recv", r.ret, r.val, None, None)
           /\ rx_terminal' = (rx_terminal \/ r.ret \in {"Ok", "Closed"})
           /\ nyield' = IF r.val # None THEN Min(nyield + 1, CountCap) ELSE nyield
    /\ nrecv' = IF tx # "live" THEN Min(nrecv + 1, CountCap) ELSE nrecv
    /\ UNCHANGED <<sent, close_called, rx_pend, tx_pend, tx_woke, rx_woke, rx_stale, tx_stale>>
    /\ UNCHANGED <<tx_inner, ncomplete>>
    /\ UNCHANGED qvars

\* Pin::new(&mut rx).poll(cx)
Poll ==
    /\ rx = "live"
    /\ \E w \in Wakers :
         LET r == poll(I, rx_inner, w)
         IN  /\ OSet(r.i, tx, rx, r.held, None, r.dropped)
             /\ olast' = Call("poll", r.ret, r.val, Some(w), None)
             /\ rx_terminal' = (rx_terminal \/ r.ret \in {"ReadyOk", "ReadyErr"})
             /\ nyield' = IF r.val # None THEN Min(nyield + 1, CountCap) ELSE nyield
             /\ rx_pend' = IF r.ret = "Pending" THEN Some(w) ELSE rx_pend
             /\ rx_stale' = IF rx_task # None /\ r.i.rx_task # rx_task
                               THEN rx_stale \cup {rx_task[1]} ELSE rx_stale
    /\ nrecv' = IF tx # "live" THEN Min(nrecv + 1, CountCap) ELSE nrecv
    /\ UNCHANGED <<sent, close_called, tx_pend, tx_woke, rx_woke, tx_stale>>
    /\ UNCHANGED <<tx_inner, ncomplete>>
    /\ UNCHANGED qvars

\* drop(rx)
ReceiverDrop ==
    /\ rx = "live"
    /\ LET r == receiver_drop(I, rx_inner)
       IN  /\ OSet(r.i, tx, "dropped", rx_inner, None, None)
           /\ olast' = Call("drop_rx", "unit", None, None, r.woke)
           /\ tx_woke' = IF r.woke # None THEN r.woke ELSE tx_woke
    /\ rx_pend' = None
    /\ UNCHANGED <<sent, close_called, nrecv, nyield, tx_pend, rx_woke, rx_stale, tx_stale>>
    /\ UNCHANGED <<tx_inner, ncomplete>>
    /\ UNCHANGED rx_terminal
    /\ UNCHANGED qvars

ONext ==
    \/ Send
    \/ SenderDrop
    \/ PollClosed
    \/ Close
    \/ TryRecv
    \/ Poll
    \/ ReceiverDrop

(***************************************************************************)
(* Specifications.  Each drives one primitive and leaves the other as      *)
(* constructed.                                                            *)
(***************************************************************************)

Init == QInit /\ OInit

QueueSpec == Init /\ [][QNext]_vars

OneshotSpec == Init /\ [][ONext]_vars

(***************************************************************************)
(* Properties.                                                             *)
(***************************************************************************)

\* Sum of (end - begin) over the Blocks on the chain from `cur` to `last`,
\* following next-links; negative when `last` is not on the chain.
RECURSIVE ChainSum(_, _, _, _)
ChainSum(b, cur, last, fuel) ==
    IF cur = NULL \/ fuel = 0 THEN 0 - (BLOCK_CAP * MaxPush)
    ELSE IF cur = last THEN BlockLen(b[cur])
    ELSE BlockLen(b[cur]) + ChainSum(b, b[cur].next, last, fuel - 1)

RecvOps == {"try_recv", "poll"}

\* C1: with pop only called while len > 0, every pop returns (it does not
\* panic) and the k-th pop returns the k-th value pushed, across Block
\* boundaries and Block recycling: FIFO, nothing lost, nothing duplicated.
C1_FifoOrder ==
    /\ qpanic = "none"
    /\ qlast = "pop" => popRet = PushedValue(pops)

\* A pop served from Block 1 after it was drained, recycled behind the tail
\* and filled again.
C1_Witness ==
    /\ qlast = "pop"
    /\ head = 1
    /\ pops > BLOCK_CAP
    /\ popRet = PushedValue(pops)

\* C2: once send(x) returned Ok, the first receive attempt (try_recv or poll)
\* of a Receiver that still holds its channel reference yields x; x is
\* yielded at most once, and every later try_recv returns Err(Closed).
C2_SentValueYieldedOnce ==
    /\ nyield <= 1
    /\ (olast.op \in RecvOps /\ olast.val # None) =>
           (sent.res = "ok" /\ olast.val = sent.v)
    /\ (sent.res = "ok" /\ olast.op \in RecvOps /\ nrecv = 1
            /\ olast.pre.rx_inner) =>
           (olast.ret \in {"Ok", "ReadyOk"} /\ olast.val = sent.v)
    /\ (sent.res = "ok" /\ olast.op = "try_recv" /\ nrecv >= 2) =>
           (olast.ret = "Closed" /\ olast.val = None)

\* A second try_recv after the sent value was taken by the first attempt.
C2_Witness ==
    /\ sent.res = "ok"
    /\ olast.op = "try_recv"
    /\ nrecv = 2
    /\ nyield = 1
    /\ olast.ret = "Closed"

\* C3: send(x) returns Err(x) exactly when CLOSED was set when it was called;
\* then the value cell is left empty and no receive attempt ever yields x.
\* Otherwise it returns Ok(()) and the value cell holds x.
C3_SendFailsIffClosed ==
    /\ olast.op = "send" =>
         /\ olast.ret = "Err" <=> is_closed(olast.pre.state)
         /\ olast.ret = "Err" => (olast.val = olast.arg /\ value = None)
         /\ olast.ret # "Err" => (olast.ret = "Ok" /\ value = olast.arg)
    /\ sent.res = "err" => (nyield = 0 /\ value = None)

\* A send that failed because the Receiver had been dropped.
C3_Witness ==
    /\ olast.op = "send"
    /\ olast.ret = "Err"
    /\ olast.val = olast.arg
    /\ rx = "dropped"

\* C4: dropping a Sender that has not sent completes the channel with no
\* value; a Receiver that was Pending with a registered waker and has not
\* closed has that waker invoked; and the next receive attempt of a Receiver
\* that holds its channel reference (a pending Receiver always does) gives the
\* closed error: poll Ready(Err(RecvError)), try_recv Err(Closed).
C4_SenderDropResolvesReceiver ==
    /\ olast.op = "drop_tx" =>
         /\ is_complete(state) /\ value = None
         /\ olast.pre.rx_pend # None =>
              (olast.woke = olast.pre.rx_pend /\ olast.woke = olast.pre.rx_task)
    /\ (tx = "dropped" /\ olast.op = "poll" /\ nrecv = 1 /\ olast.pre.rx_inner) =>
           olast.ret = "ReadyErr"
    /\ (tx = "dropped" /\ olast.op = "try_recv" /\ nrecv = 1) =>
           olast.ret = "Closed"
    /\ (tx = "dropped" /\ rx_woke # None /\ nrecv = 0 /\ rx = "live") => rx_inner

\* A Receiver that was Pending is woken by the Sender's drop and its next
\* poll resolves to the closed error.
C4_Witness ==
    /\ tx = "dropped"
    /\ rx_woke # None
    /\ olast.op = "poll"
    /\ nrecv = 1
    /\ olast.ret = "ReadyErr"

\* C5: after the Receiver is dropped the channel, as long as it exists (the
\* Sender still holds it), has CLOSED set; a Sender that was Pending in
\* poll_closed with a registered waker has had that waker invoked by the drop
\* or by an earlier close, and its next poll_closed returns Ready(()).
C5_ReceiverDropWakesSender ==
    /\ (rx = "dropped" /\ ~inner_freed) => is_closed(state)
    /\ (rx = "dropped" /\ tx = "live") => ~inner_freed
    /\ (rx = "dropped" /\ tx = "live" /\ tx_pend # None) => tx_woke = tx_pend
    /\ (olast.op = "drop_rx" /\ olast.pre.tx_pend # None /\ tx = "live"
            /\ ~is_closed(olast.pre.state)) =>
           olast.woke = olast.pre.tx_pend
    /\ (olast.op = "poll_closed" /\ rx = "dropped") => olast.ret = "Ready"

\* A Sender that was Pending in poll_closed polls again after the Receiver
\* was dropped.
C5_Witness ==
    /\ rx = "dropped"
    /\ tx = "live"
    /\ tx_pend # None
    /\ tx_woke = tx_pend
    /\ olast.op = "poll_closed"
    /\ olast.ret = "Ready"

\* C6: when a Receiver poll returned Pending with waker w and the Receiver
\* has not closed since, the next successful send or Sender drop invokes
\* exactly w, the waker of the latest Pending poll and no replaced one, and
\* the poll that follows returns Ready.
C6_LatestRxWakerWoken ==
    /\ (olast.op \in {"send", "drop_tx"} /\ olast.ret # "Err"
            /\ olast.pre.rx_pend # None) =>
           (olast.woke = olast.pre.rx_pend /\ rx_woke = olast.woke)
    /\ (rx_woke # None /\ olast.op = "poll" /\ nrecv = 1) =>
           /\ olast.ret \in {"ReadyOk", "ReadyErr"}
           /\ olast.ret = "ReadyOk" <=> sent.res = "ok"
           /\ olast.val = IF sent.res = "ok" THEN sent.v ELSE None

\* The Receiver polled Pending with two different wakers in turn, the send
\* woke it, and the poll that follows yields the value.
C6_Witness ==
    /\ rx_stale # {}
    /\ rx_woke # None
    /\ rx_woke[1] \notin rx_stale
    /\ olast.op = "poll"
    /\ nrecv = 1
    /\ olast.ret = "ReadyOk"

\* C7: try_recv returns Err(Empty) exactly when neither VALUE_SENT nor CLOSED
\* is set; Ok(x) when x was sent successfully and not yet taken; Err(Closed)
\* when the Sender dropped without sending, the value was already taken, the
\* channel is closed without a value, or the Receiver has already finalized.
C7_TryRecvOutcome ==
    olast.op = "try_recv" =>
      LET p == olast.pre
      IN  /\ olast.ret \in {"Empty", "Ok", "Closed"}
          /\ olast.ret = "Empty" <=> (~is_complete(p.state) /\ ~is_closed(p.state))
          /\ (sent.res = "ok" /\ p.value # None) =>
                 (olast.ret = "Ok" /\ olast.val = sent.v /\ p.value = sent.v)
          /\ (\/ tx = "dropped"
              \/ sent.res = "ok" /\ p.value = None
              \/ is_closed(p.state) /\ p.value = None
              \/ ~p.rx_inner) =>
                 (olast.ret = "Closed" /\ olast.val = None)

\* try_recv after send(x) returned Ok and the Receiver then closed: the
\* value is still returned.
C7_Witness ==
    /\ olast.op = "try_recv"
    /\ olast.ret = "Ok"
    /\ is_closed(olast.pre.state)

\* C8: Sender::is_closed() is false while the Receiver has neither called
\* close nor been dropped and true once either has happened; a send made
\* after that returns Err.
C8_IsClosedTracksReceiver ==
    /\ tx = "live" => (SenderIsClosed(I) <=> (close_called \/ rx = "dropped"))
    /\ (olast.op = "send" /\ (close_called \/ rx = "dropped")) =>
           olast.ret = "Err"

\* A send after Receiver::close on a Receiver that is still alive.
C8_Witness ==
    /\ olast.op = "send"
    /\ close_called
    /\ rx = "live"
    /\ is_closed(olast.pre.state)
    /\ olast.ret = "Err"

\* C9: is_full() is false for every unbounded queue (cap = 0), and for a
\* bounded queue it is true exactly when len has reached cap.
C9_IsFullAsDocumented ==
    /\ cap = 0 => ~QueueIsFull(Q)
    /\ cap > 0 => (QueueIsFull(Q) <=> len = cap)

\* C10: after every push and pop, len() is the number of pushes minus the
\* number of pops and the sum of (end - begin) over the Blocks from head to
\* tail; is_empty() is true exactly when that count is 0.
C10_LenIsCount ==
    /\ QueueLen(Q) = pushes - pops
    /\ QueueLen(Q) = ChainSum(blocks, head, tail, Len(blocks))
    /\ QueueIsEmpty(Q) <=> pushes - pops = 0

\* More than one Block's worth of live values, held in Blocks between a
\* head that was partly drained and a different tail.
C10_Witness ==
    /\ qlast = "pop"
    /\ head # tail
    /\ blocks[head].begin > 0
    /\ len > BLOCK_CAP
    /\ len = ChainSum(blocks, head, tail, Len(blocks))

\* C11: after poll_closed calls that each returned Pending, a close or drop
\* of the Receiver invokes the waker of the last of them and no other; a
\* poll_closed that replaces a stored waker drops the replaced one in that
\* call, leaves only the new one in the slot, and a poll_closed with the
\* waker already stored drops nothing.
C11_LatestTxWakerWoken ==
    /\ olast.op \in {"close", "drop_rx"} =>
           olast.woke \in {None, olast.pre.tx_pend}
    /\ (olast.op \in {"close", "drop_rx"} /\ olast.pre.tx_pend # None
            /\ tx = "live" /\ ~is_closed(olast.pre.state)) =>
           olast.woke = olast.pre.tx_pend
    /\ (olast.op = "poll_closed" /\ olast.ret = "Pending") =>
           /\ tx_task = olast.arg
           /\ tx_dropped = IF olast.pre.tx_task \notin {None, olast.arg}
                             THEN olast.pre.tx_task ELSE None
    /\ Len(tx_dropped) <= 1
    /\ tx_woke # None => tx_woke = tx_pend

\* The Sender polled Pending with two different wakers in turn and the
\* Receiver's close invoked the second one.
C11_Witness ==
    /\ olast.op = "close"
    /\ tx_stale # {}
    /\ olast.woke # None
    /\ olast.woke[1] \notin tx_stale
    /\ olast.woke = tx_pend

\* C12: a close or drop of the Receiver on a channel that is already CLOSED,
\* or whose value was already received, changes no state and invokes no
\* waker.
C12_CloseIsIdempotent ==
    (olast.op \in {"close", "drop_rx"}
        /\ (is_closed(olast.pre.state) \/ ~olast.pre.rx_inner)) =>
      /\ olast.woke = None
      /\ ~inner_freed => state = olast.pre.state

\* C13: when send(x) returned Ok before close(), the close leaves the value
\* in place and invokes no waker, and the first receive attempt after it
\* (try_recv or poll) yields x.
C13_ValueSurvivesClose ==
    /\ (olast.op = "close" /\ sent.res = "ok") =>
           /\ olast.woke = None
           /\ value = olast.pre.value
           /\ tx_woke = None
    /\ (olast.op \in {"try_recv", "poll"} /\ sent.res = "ok" /\ close_called
            /\ nrecv = 1) =>
           /\ olast.ret \in {"Ok", "ReadyOk"}
           /\ olast.val = sent.v

\* The Sender registered a waker, sent, the Receiver closed, and the poll
\* after the close yields the value; the Sender's waker was never invoked.
C13_Witness ==
    /\ olast.op = "poll"
    /\ olast.ret = "ReadyOk"
    /\ olast.val = sent.v
    /\ close_called
    /\ is_closed(olast.pre.state)
    /\ tx_pend # None
    /\ tx_woke = None

\* C14: a try_recv that returns Err(Empty) leaves the state bits, the value
\* cell, both waker slots and the Receiver's reference unchanged.
C14_EmptyChangesNothing ==
    (olast.op = "try_recv" /\ olast.ret = "Empty") =>
      /\ state = olast.pre.state
      /\ value = olast.pre.value
      /\ tx_task = olast.pre.tx_task
      /\ rx_task = olast.pre.rx_task
      /\ rx_inner = olast.pre.rx_inner
      /\ rx_inner
      /\ ~inner_freed

\* try_recv returned Err(Empty) on a channel with both wakers registered.
C14_Witness ==
    /\ olast.op = "try_recv"
    /\ olast.ret = "Empty"
    /\ tx_task # None
    /\ rx_task # None
    /\ rx_inner

\* C15 (as stated): once the queue was filled to a high-water length H and
\* drained completely, it never holds more Blocks than filling a new queue
\* to H allocates (H div BLOCK_CAP + 1) while len stays at or below H.
C15_NoBlockBeyondHighWater ==
    drained => Len(blocks) <= hwm \div BLOCK_CAP + 1

\* C15 (amended): filling a new queue to H allocates H div BLOCK_CAP + 1
\* Blocks; after a complete drain, refilling while len stays at or below H
\* allocates at most one Block more than that, and none more when H is a
\* multiple of BLOCK_CAP.
C15_AtMostOneExtraBlock ==
    /\ pops = 0 => Len(blocks) = pushes \div BLOCK_CAP + 1
    /\ drained => Len(blocks) <= hwm \div BLOCK_CAP + 2
    /\ (drained /\ hwm % BLOCK_CAP = 0) => Len(blocks) <= hwm \div BLOCK_CAP + 1

\* A refill after a complete drain, never above the high-water length,
\* allocated one Block more than the first fill had.
C15_Witness ==
    /\ drained
    /\ qlast = "push"
    /\ len <= hwm
    /\ Len(blocks) = hwm \div BLOCK_CAP + 2

\* C16: tearing down a Queue that still holds live values drops each of
\* them (the values pushed and not yet popped) exactly once.
C16_TeardownDropsLiveValues ==
    qlast = "free" =>
      \A k \in pops + 1 .. pushes :
        Cardinality({i \in DOMAIN valDropped : valDropped[i] = PushedValue(k)}) = 1

\* C17: after every completed push_unchecked and pop_unchecked the tail
\* Block has end < BLOCK_CAP; a Block that is full is not the tail and has
\* the Block the tail moved to linked after it.
C17_TailHasFreeSlot ==
    /\ qpanic = "none"
    /\ blocks[tail].end < BLOCK_CAP
    /\ \A a \in 1 .. Len(blocks) :
         blocks[a].end = BLOCK_CAP => (a # tail /\ BlockNext(blocks[a]) # NULL)

\* A push filled the tail and moved it to a recycled Block that was already
\* linked after it.
C17_Witness ==
    /\ qlast = "push"
    /\ blocks[tail].end = 0
    /\ tail < Len(blocks)
    /\ head # tail
    /\ pushes % BLOCK_CAP = 0

\* C18: following next from head gives a chain that ends at a null link,
\* contains the tail and contains every allocated Block exactly once;
\* free_blocks deallocates every allocated Block exactly once.
C18_ChainCoversBlocksOnce ==
    LET chain == FreeWalk(blocks, head, Len(blocks) + 1)
        all == 1 .. Len(blocks)
    IN  /\ Len(chain) = Len(blocks)
        /\ \A a \in all : Cardinality({i \in DOMAIN chain : chain[i] = a}) = 1
        /\ \E i \in DOMAIN chain : chain[i] = tail
        /\ BlockNext(blocks[chain[Len(chain)]]) = NULL
        /\ qlast = "free" =>
             /\ Len(freed) = Len(blocks)
             /\ \A a \in all :
                  Cardinality({i \in DOMAIN freed : freed[i] = a}) = 1

\* Teardown of a queue of three Blocks whose chain order differs from the
\* allocation order and has a recycled Block behind the tail.
C18_Witness ==
    /\ qlast = "free"
    /\ Len(freed) = 3
    /\ freed[1] # 1
    /\ freed[3] # tail

\* C19: no pop made with len > 0 panics with "internal error": whenever the
\* next pop will drain the head Block, that Block has a successor.
C19_DrainedHeadHasSuccessor ==
    /\ qpanic # "internal error"
    /\ (len > 0 /\ blocks[head].begin = BLOCK_CAP - 1) =>
           BlockNext(blocks[head]) # NULL

\* A pop has just drained a head Block and moved head to its successor.
C19_Witness ==
    /\ qlast = "pop"
    /\ qpanic = "none"
    /\ pops > 0
    /\ pops % BLOCK_CAP = 0
    /\ blocks[head].begin = 0

\* C20: a pop that consumes the last slot of the head Block moves head to
\* that Block's successor, resets the drained Block (begin = end = 0) and
\* links it right after the tail, with the Blocks that followed the tail
\* linked after it; the head Block is then not the tail; no pop allocates or
\* deallocates a Block, and a pop that does not drain the head Block leaves
\* head and every link as they were.
C20_RecycleStep ==
    [][qlast' = "pop" =>
         /\ Len(blocks') = Len(blocks)
         /\ freed' = freed
         /\ tail' = tail
         /\ IF blocks[head].begin = BLOCK_CAP - 1
              THEN /\ head # tail
                   /\ head' = BlockNext(blocks[head])
                   /\ blocks'[head].begin = 0
                   /\ blocks'[head].end = 0
                   /\ BlockNext(blocks'[tail]) = head
                   /\ BlockNext(blocks'[head]) = BlockNext(blocks[tail])
                   /\ \A a \in 1 .. Len(blocks) :
                        a \notin {head, tail} => blocks'[a] = blocks[a]
              ELSE /\ head' = head
                   /\ \A a \in 1 .. Len(blocks) :
                        BlockNext(blocks'[a]) = BlockNext(blocks[a])]_vars

\* A pop recycled a Block while another recycled Block was already linked
\* after the tail: the new one sits between the tail and the older one.
C20_Witness ==
    /\ qlast = "pop"
    /\ pops > 0
    /\ pops % BLOCK_CAP = 0
    /\ BlockNext(blocks[tail]) # NULL
    /\ blocks[BlockNext(blocks[tail])].begin = 0
    /\ blocks[BlockNext(blocks[tail])].end = 0
    /\ BlockNext(blocks[BlockNext(blocks[tail])]) # NULL

\* C21: only a push allocates, one Block at a time, and only when it has
\* just filled the tail Block (end = BLOCK_CAP) and no Block was linked after
\* it; the new Block is then linked after the old tail and becomes the tail.
\* The number of Blocks allocated so far is at most
\* floor((H - 1) / BLOCK_CAP) + 2, H >= 1 being the largest len reached.
C21_AllocationBound ==
    [][/\ Len(blocks') # Len(blocks) =>
            /\ qlast' = "push"
            /\ Len(blocks') = Len(blocks) + 1
            /\ blocks[tail].end = BLOCK_CAP - 1
            /\ blocks'[tail].end = BLOCK_CAP
            /\ BlockNext(blocks[tail]) = NULL
            /\ BlockNext(blocks'[tail]) = Len(blocks')
            /\ tail' = Len(blocks')
       /\ (qlast' = "push" /\ blocks'[tail].end = BLOCK_CAP
              /\ BlockNext(blocks[tail]) # NULL) =>
            /\ Len(blocks') = Len(blocks)
            /\ tail' = BlockNext(blocks[tail])
       /\ hwm' >= 1 => Len(blocks') <= (hwm' - 1) \div BLOCK_CAP + 2]_vars

\* The bound is met: a third Block was allocated by a push although len
\* never exceeded two Blocks' worth of values.
C21_Witness ==
    /\ qlast = "push"
    /\ Len(blocks) = 3
    /\ tail = 3
    /\ blocks[tail].end = 0
    /\ hwm <= 2 * BLOCK_CAP
    /\ Len(blocks) = (hwm - 1) \div BLOCK_CAP + 2

\* C22: a handle that has observed a terminal outcome holds no reference:
\* the Sender after send returned, the Receiver after try_recv returned a
\* value or Closed and after poll returned Ready(Ok) or Ready(Err); the drop
\* of such a Receiver does nothing to Inner and invokes no waker.
C22_TerminalOutcomeEmptiesReference ==
    /\ olast.op = "send" => ~tx_inner
    /\ (olast.op = "try_recv" /\ olast.ret \in {"Ok", "Closed"}) => ~rx_inner
    /\ (olast.op = "poll" /\ olast.ret \in {"ReadyOk", "ReadyErr"}) => ~rx_inner
    /\ (olast.op = "drop_rx" /\ rx_terminal) =>
           /\ olast.woke = None
           /\ state = olast.pre.state

\* C23: while Inner exists, TX_TASK_SET (RX_TASK_SET) is set exactly when
\* tx_task (rx_task) holds a waker; a waker is invoked or dropped only out
\* of a slot whose bit is set; a slot's waker is replaced or removed only by
\* dropping it in the same call; once Inner is destroyed no slot holds a
\* waker, and no call drops more than the one waker a slot held.
C23_TaskBitsTrackSlots ==
    /\ ~inner_freed =>
           /\ is_tx_task_set(state) <=> tx_task # None
           /\ is_rx_task_set(state) <=> rx_task # None
    /\ inner_freed => (tx_task = None /\ rx_task = None)
    /\ (olast.op \in {"send", "drop_tx"} /\ olast.woke # None) =>
           (is_rx_task_set(olast.pre.state) /\ olast.woke = olast.pre.rx_task)
    /\ (olast.op \in {"close", "drop_rx"} /\ olast.woke # None) =>
           (is_tx_task_set(olast.pre.state) /\ olast.woke = olast.pre.tx_task)
    /\ tx_dropped # None =>
           (is_tx_task_set(olast.pre.state) /\ tx_dropped = olast.pre.tx_task)
    /\ rx_dropped # None =>
           (is_rx_task_set(olast.pre.state) /\ rx_dropped = olast.pre.rx_task)
    /\ (olast.pre.tx_task # None /\ tx_task # olast.pre.tx_task) =>
           tx_dropped = olast.pre.tx_task
    /\ (olast.pre.rx_task # None /\ rx_task # olast.pre.rx_task) =>
           rx_dropped = olast.pre.rx_task
    /\ olast.pre.inner_freed => (tx_dropped = None /\ rx_dropped = None)

\* The call that released the last reference destroyed Inner with a waker
\* in each slot, and both were dropped.
C23_Witness ==
    /\ inner_freed
    /\ ~olast.pre.inner_freed
    /\ tx_dropped # None
    /\ rx_dropped # None

\* C24: Inner::complete runs at most once per channel: a Sender that has
\* called send holds no reference when it is dropped, so it does not complete
\* again, and the rx_task waker is invoked at most once.
C24_CompleteAtMostOnce ==
    /\ ncomplete <= 1
    /\ Len(rx_woke) <= 1
    /\ tx # "live" => ncomplete = 1
    /\ tx = "sent" => ~tx_inner
    /\ olast.op \in {"send", "drop_tx"} => Len(olast.woke) <= 1

\* A send woke the pending Receiver, and the drop of the consumed Sender
\* did not complete the channel again.
C24_Witness ==
    /\ olast.op = "send"
    /\ tx = "sent"
    /\ olast.pre.rx_pend # None
    /\ rx_woke = olast.pre.rx_pend
    /\ ncomplete = 1

\* C25 (as stated): when CLOSED is already set, a send or the drop of an
\* unsent Sender leaves the state bits and the value cell as they were and
\* invokes no waker; send returns the value to its caller.
C25_CompleteWhenClosedIsNoOp ==
    (olast.op \in {"send", "drop_tx"} /\ is_closed(olast.pre.state)) =>
      /\ state = olast.pre.state
      /\ value = olast.pre.value
      /\ olast.woke = None
      /\ olast.op = "send" => (olast.ret = "Err" /\ olast.val = olast.arg)

\* C25 (amended): when CLOSED is already set, a send or the drop of an
\* unsent Sender sets VALUE_SENT and changes nothing else: the other state
\* bits and the value cell are as before, no waker is invoked, and while
\* Inner exists the waker slots are as before; send returns the value to its
\* caller.
C25_CompleteWhenClosedSetsOnlyValueSent ==
    (olast.op \in {"send", "drop_tx"} /\ is_closed(olast.pre.state)) =>
      /\ state = WithBit(olast.pre.state, VALUE_SENT)
      /\ HasBit(state, VALUE_SENT)
      /\ value = olast.pre.value
      /\ olast.woke = None
      /\ rx_woke = None
      /\ ~inner_freed => (tx_task = olast.pre.tx_task /\ rx_task = olast.pre.rx_task)
      /\ olast.op = "send" => (olast.ret = "Err" /\ olast.val = olast.arg)

\* A send on a closed channel whose Receiver had registered a waker: the
\* send fails, the waker is not invoked, VALUE_SENT is now set.
C25_Witness ==
    /\ olast.op = "send"
    /\ is_closed(olast.pre.state)
    /\ is_rx_task_set(olast.pre.state)
    /\ ~is_complete(olast.pre.state)
    /\ is_complete(state)
    /\ olast.ret = "Err"

\* C26: a poll of a Receiver that holds its reference returns Pending
\* exactly when neither VALUE_SENT nor CLOSED is set, and then rx_task holds
\* the polling waker with RX_TASK_SET set; Ready(Ok(x)) exactly when the
\* channel is complete with x present; Ready(Err) exactly when it is
\* complete without a value, or closed and not complete.
C26_PollOutcome ==
    (olast.op = "poll" /\ olast.pre.rx_inner) =>
      LET p == olast.pre
      IN  /\ olast.ret \in {"Pending", "ReadyOk", "ReadyErr"}
          /\ olast.ret = "Pending" <=>
                 (~is_complete(p.state) /\ ~is_closed(p.state))
          /\ olast.ret = "Pending" =>
                 (rx_task = olast.arg /\ is_rx_task_set(state))
          /\ olast.ret = "ReadyOk" <=> (is_complete(p.state) /\ p.value # None)
          /\ olast.ret = "ReadyOk" => olast.val = p.value
          /\ olast.ret = "ReadyErr" <=>
                 \/ is_complete(p.state) /\ p.value = None
                 \/ is_closed(p.state) /\ ~is_complete(p.state)

\* A poll after the Receiver closed a channel that was never completed.
C26_Witness ==
    /\ olast.op = "poll"
    /\ olast.pre.rx_inner
    /\ olast.ret = "ReadyErr"
    /\ is_closed(olast.pre.state)
    /\ ~is_complete(olast.pre.state)

\* C27: a poll of a Receiver whose reference is empty panics ("called after
\* complete"), and no other poll does; the reference is empty after a poll
\* that returned Ready(Ok) and after a try_recv that returned a value or
\* Err(Closed).
C27_PollAfterCompletePanics ==
    /\ olast.op = "poll" => (olast.ret = "panic" <=> ~olast.pre.rx_inner)
    /\ (olast.op = "poll" /\ olast.ret = "panic") =>
           (olast.val = None /\ state = olast.pre.state)
    /\ (olast.op = "poll" /\ olast.ret = "ReadyOk") => ~rx_inner
    /\ (olast.op = "try_recv" /\ olast.ret \in {"Ok", "Closed"}) => ~rx_inner

\* A poll after the value was already received panicked.
C27_Witness ==
    /\ olast.op = "poll"
    /\ olast.ret = "panic"
    /\ nyield = 1
    /\ sent.res = "ok"

====
